---- MODULE Spec2Model ----
(***************************************************************************)
(* Model of internal/markdowndoc and internal/bitbucket:                   *)
(*   - the trigram Sorensen-Dice similarity scorer                         *)
(*     (TransformToUniqueTrigrams, TrigramSorensenDiceSimilarity);         *)
(*   - the navigation tree assembly (BuildNavigationItemTrees and its      *)
(*     helpers);                                                           *)
(*   - the search request (GetMarkdownSearchTermMatches,                   *)
(*     mapToMarkdownSearchPage, utils.CalculateTotalPages);                *)
(*   - the housekeeper (DeleteObsoleteMarkdownsFromDatabase);              *)
(*   - the reader of the file structure                                    *)
(*     (ReadMarkdownFileStructureRecursively).                             *)
(* Texts are sequences of byte values, so that slices.Sort's byte order    *)
(* and the ASCII-only character class \W are modelled as Go computes them. *)
(***************************************************************************)
EXTENDS Integers, Sequences, FiniteSets, TLC

VARIABLES
    pc,                 \* position of the call being modelled
    a, b,               \* the two argument texts
    unsorted,           \* trigrams in map iteration order (before slices.Sort)
    aTrigrams,          \* TransformToUniqueTrigrams(a)
    bTrigrams,          \* TransformToUniqueTrigrams(b)
    aTrigramsByTrigram, \* keys of the lookup table of TrigramSorensenDiceSimilarity
    intersectionCount,  \* common trigrams counted
    score,              \* returned float64: [num, den] of the final division
    markdownMetas,      \* the argument of BuildNavigationItemTrees
    linkedItems,        \* the arena of NavigationItems after linkChildrenWithTheSameParent
    linkedRoots,        \* rootNavigationItems after linkChildrenWithTheSameParent
    returnedItems,      \* the arena when BuildNavigationItemTrees returns
    rootNavigationItems, \* the roots BuildNavigationItemTrees returns
    request,            \* the payload of the search request: Term, PageSize
    repository,         \* what the repository yields for the term: rows, count
    matchesWithSimilarity, \* the scored candidates of GetMarkdownSearchTermMatches
    status,             \* HTTP status of the response
    page,               \* the Page of the response
    callArgs,           \* the arguments of a call of CalculateTotalPages
    totalPages,         \* the int that call returns
    markdownMetasFromBitbucket, \* the source metas given to the housekeeper
    markdownMetasFromDb, \* the database metas given to the housekeeper
    toBeDeletedMarkdownMetaIds, \* the IDs of the obsolete metas
    toBeDeletedMarkdownContentIds, \* the IDs the content lookup returned
    database,           \* the tables markdown_meta and markdown_contents
    calls,              \* the repository calls of the housekeeper, in order
    err,                \* what DeleteObsoleteMarkdownsFromDatabase returns
    producer,           \* the goroutine of read(): position, fetched response, Result to send
    consumer,           \* consume(): position, filePaths, returned error
    outStream           \* the unbuffered channel of Results: open or closed

trigramVars == <<a, b, unsorted, aTrigrams, bTrigrams, aTrigramsByTrigram,
                 intersectionCount, score>>

navVars == <<markdownMetas, linkedItems, linkedRoots, returnedItems, rootNavigationItems>>

searchVars == <<request, repository, matchesWithSimilarity, status, page,
                callArgs, totalPages>>

housekeeperVars == <<markdownMetasFromBitbucket, markdownMetasFromDb,
                     toBeDeletedMarkdownMetaIds, toBeDeletedMarkdownContentIds,
                     database, calls, err>>

readerVars == <<producer, consumer, outStream>>

bitbucketVars == <<housekeeperVars, readerVars>>

vars == <<pc, trigramVars, navVars, searchVars, bitbucketVars>>

----------------------------------------------------------------------------
(* Bounds of the model *)

\* longest text given to one call of TransformToUniqueTrigrams
MaxLen == 3

\* longest text of a pair given to TrigramSorensenDiceSimilarity
MaxPairLen == 2

\* most words, and longest word, of a text whose words are reordered
MaxWords == 2

MaxWordLen == 1

\* most records given to BuildNavigationItemTrees
MaxRecords == 3

----------------------------------------------------------------------------
(* Characters: byte values *)

\* the padding character of line "padded := ..." (a space)
SP == 32

\* ' ', '-', 'A', 'a', 'b'
Alphabet == {SP, 45, 65, 97, 98}

Texts == UNION {[1..n -> Alphabet] : n \in 0..MaxLen}

PairTexts == UNION {[1..n -> Alphabet] : n \in 0..MaxPairLen}

\* \w of RE2: [0-9A-Za-z_]; \W is its complement
IsWordChar(c) ==
    \/ c \in 48..57
    \/ c \in 65..90
    \/ c = 95
    \/ c \in 97..122

\* unicode.ToLower on the ASCII range
ToLowerChar(c) == IF c \in 65..90 THEN c + 32 ELSE c

\* variant with a fault: the word is not lower-cased
ToLowerSkipped(w) == w

\* strings.ToLower(word)
ToLower(w) == [i \in 1..Len(w) |-> ToLowerChar(w[i])]

----------------------------------------------------------------------------
(* regexp.MustCompile(`\W+`).Split(a, -1) *)

\* scan from position i; cur is the word being read, acc the words emitted
RECURSIVE SplitFrom(_, _, _, _)
SplitFrom(s, i, cur, acc) ==
    IF i > Len(s) THEN Append(acc, cur)
    ELSE IF IsWordChar(s[i]) THEN SplitFrom(s, i + 1, Append(cur, s[i]), acc)
    ELSE IF i > 1 /\ ~IsWordChar(s[i - 1]) THEN SplitFrom(s, i + 1, cur, acc)
    ELSE SplitFrom(s, i + 1, <<>>, Append(acc, cur))

SplitNonWord(s) == SplitFrom(s, 1, <<>>, <<>>)

----------------------------------------------------------------------------
(* byte-wise string order used by slices.Sort *)

RECURSIVE StrLess(_, _)
StrLess(x, y) ==
    IF Len(y) = 0 THEN FALSE
    ELSE IF Len(x) = 0 THEN TRUE
    ELSE IF x[1] < y[1] THEN TRUE
    ELSE IF x[1] > y[1] THEN FALSE
    ELSE StrLess(Tail(x), Tail(y))

\* insert x into the sorted sequence s
RECURSIVE InsertSorted(_, _)
InsertSorted(x, s) ==
    IF Len(s) = 0 THEN <<x>>
    ELSE IF StrLess(s[1], x) THEN <<s[1]>> \o InsertSorted(x, Tail(s))
    ELSE <<x>> \o s

RECURSIVE SortedOf(_)
SortedOf(s) ==
    IF Len(s) = 0 THEN <<>>
    ELSE InsertSorted(s[1], SortedOf(Tail(s)))

\* variant with a fault: the slice is returned in map iteration order
UnsortedOf(s) == s

\* slices.Sort(trigrams)
SlicesSort(s) == SortedOf(s)

----------------------------------------------------------------------------
(* TransformToUniqueTrigrams *)

Range(s) == {s[i] : i \in 1..Len(s)}

\* variant with a fault: the window loop runs len(word) times, dropping the trailing window
WordTrigramsShort(word) ==
    LET w == ToLower(word)
        padded == <<SP, SP>> \o w \o <<SP>>
    IN  {SubSeq(padded, i + 1, i + 3) : i \in 0..(Len(w) - 1)}

\* the inner loop: for i := 0; i < 1+len(word); i++ { t := padded[:3]; ... }
WordTrigrams(word) ==
    LET w == ToLower(word)
        padded == <<SP, SP>> \o w \o <<SP>>
    IN  {SubSeq(padded, i + 1, i + 3) : i \in 0..Len(w)}

\* variant with a fault: the text is windowed as one word, separators included
UniqueTrigramSetWholeText(text) ==
    IF Len(text) = 0 THEN {}
    ELSE WordTrigrams(text)

\* the keys of the map uniqueTrigrams once every word was processed
UniqueTrigramSet(text) ==
    IF Len(text) = 0 THEN {}
    ELSE LET words == SplitNonWord(text)
         IN  UNION {WordTrigrams(words[k]) : k \in 1..Len(words)}

\* the orders in which "for t := range uniqueTrigrams" may visit the keys
IterationOrders(S) ==
    {f \in [1..Cardinality(S) -> S] : \A i, j \in 1..Cardinality(S) : f[i] = f[j] => i = j}

\* one of these orders
RECURSIVE SomeOrder(_)
SomeOrder(S) ==
    IF S = {} THEN <<>>
    ELSE LET t == CHOOSE x \in S : TRUE
         IN  <<t>> \o SomeOrder(S \ {t})

TransformToUniqueTrigrams(text) ==
    IF Len(text) = 0 THEN <<>>
    ELSE SlicesSort(SomeOrder(UniqueTrigramSet(text)))

----------------------------------------------------------------------------
(* TrigramSorensenDiceSimilarity *)

\* float64 division of two non-negative integers converted to float64
Float64Div(n, d) ==
    IF d # 0 THEN [kind |-> "num", num |-> n, den |-> d]
    ELSE IF n = 0 THEN [kind |-> "NaN", num |-> 0, den |-> 0]
    ELSE [kind |-> "Inf", num |-> n, den |-> 0]

\* variant with a fault: the loop counts the trigrams of b that are missing from the table
RECURSIVE CountMissing(_, _)
CountMissing(bT, table) ==
    IF Len(bT) = 0 THEN 0
    ELSE (IF bT[1] \in table THEN 0 ELSE 1) + CountMissing(Tail(bT), table)

\* for _, bT := range bTrigrams { if _, ok := table[bT]; !ok { continue }; intersectionCount++ }
RECURSIVE CountCommon(_, _)
CountCommon(bT, table) ==
    IF Len(bT) = 0 THEN 0
    ELSE (IF bT[1] \in table THEN 1 ELSE 0) + CountCommon(Tail(bT), table)

----------------------------------------------------------------------------
(* Specification of one call of TransformToUniqueTrigrams(a) *)

NoScore == [kind |-> "none", num |-> 0, den |-> 0]

\* no call of the housekeeper is modelled
HousekeeperIdle ==
    /\ markdownMetasFromBitbucket = <<>>
    /\ markdownMetasFromDb = <<>>
    /\ toBeDeletedMarkdownMetaIds = <<>>
    /\ toBeDeletedMarkdownContentIds = <<>>
    /\ database = [metas |-> {}, contents |-> {}]
    /\ calls = <<>>
    /\ err = "none"

NoResponse == [kind |-> "none"]

NoResult == [AnyFilePaths |-> <<>>, Error |-> "nil"]

\* no call of ReadMarkdownFileStructureRecursively is modelled
ReaderIdle ==
    /\ producer = [pc |-> "unstarted", response |-> NoResponse, result |-> NoResult, fetches |-> 0]
    /\ consumer = [pc |-> "unstarted", filePaths |-> <<>>, Error |-> "nil"]
    /\ outStream = "none"

BitbucketIdle == HousekeeperIdle /\ ReaderIdle

\* no call of BuildNavigationItemTrees is modelled
NavIdle ==
    /\ markdownMetas = <<>>
    /\ linkedItems = <<>>
    /\ linkedRoots = <<>>
    /\ returnedItems = <<>>
    /\ rootNavigationItems = <<>>

NoPage == [Content |-> <<>>, Pageable |-> [PageSize |-> 0],
           TotalElements |-> <<>>, TotalPages |-> <<>>]

\* no search request and no call of CalculateTotalPages is modelled
SearchIdle ==
    /\ request = [Term |-> <<>>, PageSize |-> 0]
    /\ repository = [rows |-> <<>>, count |-> <<>>]
    /\ matchesWithSimilarity = <<>>
    /\ status = 0
    /\ page = NoPage
    /\ callArgs = [matchCount |-> <<>>, pageSize |-> 0]
    /\ totalPages = <<>>

InitTrigram ==
    /\ pc = "ready"
    /\ a \in Texts
    /\ b = <<>>
    /\ unsorted = <<>>
    /\ aTrigrams = <<>>
    /\ bTrigrams = <<>>
    /\ aTrigramsByTrigram = {}
    /\ intersectionCount = 0
    /\ score = NoScore
    /\ NavIdle
    /\ SearchIdle
    /\ BitbucketIdle

\* if len(a) == 0 { return []string{} }
TransformEmpty ==
    /\ pc = "ready"
    /\ Len(a) = 0
    /\ pc' = "done"
    /\ aTrigrams' = <<>>
    /\ UNCHANGED <<a, b, unsorted, bTrigrams, aTrigramsByTrigram, intersectionCount, score>>
    /\ UNCHANGED <<navVars, searchVars, bitbucketVars>>

\* the map is filled, ranged over in some order, and the slice sorted
Transform ==
    /\ pc = "ready"
    /\ Len(a) # 0
    /\ \E order \in IterationOrders(UniqueTrigramSet(a)) :
          /\ unsorted' = order
          /\ aTrigrams' = SlicesSort(order)
    /\ pc' = "done"
    /\ UNCHANGED <<a, b, bTrigrams, aTrigramsByTrigram, intersectionCount, score>>
    /\ UNCHANGED <<navVars, searchVars, bitbucketVars>>

NextTrigram == TransformEmpty \/ Transform

SpecTrigram == InitTrigram /\ [][NextTrigram]_vars

----------------------------------------------------------------------------
(* Specification of one call of TrigramSorensenDiceSimilarity(a, b) *)

InitDice ==
    /\ pc = "ready"
    /\ a \in PairTexts
    /\ b \in PairTexts
    /\ unsorted = <<>>
    /\ aTrigrams = <<>>
    /\ bTrigrams = <<>>
    /\ aTrigramsByTrigram = {}
    /\ intersectionCount = 0
    /\ score = NoScore
    /\ NavIdle
    /\ SearchIdle
    /\ BitbucketIdle

TrigramSorensenDiceSimilarity ==
    /\ pc = "ready"
    /\ LET aT == TransformToUniqueTrigrams(a)
           bT == TransformToUniqueTrigrams(b)
           table == Range(aT)
           ic == CountCommon(bT, table)
       IN  /\ aTrigrams' = aT
           /\ bTrigrams' = bT
           /\ aTrigramsByTrigram' = table
           /\ intersectionCount' = ic
           /\ score' = Float64Div(2 * ic, Len(aT) + Len(bT))
    /\ pc' = "done"
    /\ UNCHANGED <<a, b, unsorted>>
    /\ UNCHANGED <<navVars, searchVars, bitbucketVars>>

NextDice == TrigramSorensenDiceSimilarity

SpecDice == InitDice /\ [][NextDice]_vars

----------------------------------------------------------------------------
(* Specification of one call of TrigramSorensenDiceSimilarity(a, b) on two  *)
(* texts made of the same words in a different order                       *)

WordChars == {c \in Alphabet : IsWordChar(c)}

Separators == Alphabet \ WordChars

Words == UNION {[1..n -> WordChars] : n \in 1..MaxWordLen}

WordLists == UNION {[1..n -> Words] : n \in 1..MaxWords}

\* the words ws joined by the single separators seps
RECURSIVE JoinWords(_, _)
JoinWords(ws, seps) ==
    IF Len(ws) = 1 THEN ws[1]
    ELSE ws[1] \o <<seps[1]>> \o JoinWords(Tail(ws), Tail(seps))

InitOrder ==
    /\ pc = "ready"
    /\ \E ws \in WordLists :
         \E p \in IterationOrders(1..Len(ws)) :
           \E sa, sb \in [1..(Len(ws) - 1) -> Separators] :
              /\ a = JoinWords(ws, sa)
              /\ b = JoinWords([i \in 1..Len(ws) |-> ws[p[i]]], sb)
    /\ unsorted = <<>>
    /\ aTrigrams = <<>>
    /\ bTrigrams = <<>>
    /\ aTrigramsByTrigram = {}
    /\ intersectionCount = 0
    /\ score = NoScore
    /\ NavIdle
    /\ SearchIdle
    /\ BitbucketIdle

SpecOrder == InitOrder /\ [][NextDice]_vars

----------------------------------------------------------------------------
(* Strings of the navigation tree: byte sequences *)

\* "markdowns"
RootPrefix == <<109, 97, 114, 107, 100, 111, 119, 110, 115>>

\* "Landing-Page"
LandingPage == <<76, 97, 110, 100, 105, 110, 103, 45, 80, 97, 103, 101>>

\* strings.HasPrefix(s, prefix)
HasPrefix(s, prefix) ==
    /\ Len(s) >= Len(prefix)
    /\ SubSeq(s, 1, Len(prefix)) = prefix

\* strings.Split(s, "/"): the pieces between the '/' bytes, empty pieces kept
RECURSIVE SplitSlash(_, _, _)
SplitSlash(s, i, cur) ==
    IF i > Len(s) THEN <<cur>>
    ELSE IF s[i] = 47 THEN <<cur>> \o SplitSlash(s, i + 1, <<>>)
    ELSE SplitSlash(s, i + 1, Append(cur, s[i]))

StringsSplit(s) == SplitSlash(s, 1, <<>>)

\* strings.ReplaceAll(s, "_", " ")
UnderscoresToSpaces(s) == [i \in 1..Len(s) |-> IF s[i] = 95 THEN 32 ELSE s[i]]

----------------------------------------------------------------------------
(* NavigationItem: the items live in an arena indexed by their Uuid, which *)
(* is the allocation number; Parent = 0 is the nil pointer                 *)

NewItem(uuid, name, parent) ==
    [Uuid |-> uuid, Href |-> name, Label |-> UnderscoresToSpaces(name),
     Parent |-> parent, Children |-> <<>>]

\* createNavItemTree: one child per remaining path element below item navItem;
\* returns the arena and the bottom-most item
RECURSIVE createNavItemTree(_, _, _)
createNavItemTree(items, pathElements, navItem) ==
    IF Len(pathElements) = 0 THEN [items |-> items, bottom |-> navItem]
    ELSE LET child == Len(items) + 1
             linked == [items EXCEPT ![navItem].Children = Append(@, child)]
         IN  createNavItemTree(Append(linked, NewItem(child, pathElements[1], navItem)),
                               Tail(pathElements), child)

\* findRoot: follows the Parent pointers up to the item without a parent
RECURSIVE findRoot(_, _)
findRoot(items, navItem) ==
    IF items[navItem].Parent = 0 THEN navItem
    ELSE findRoot(items, items[navItem].Parent)

\* the landing page is no navigation item: if v.Name == "Landing-Page" { continue }
IsLandingPage(v) == v.Name = LandingPage

\* one iteration of the loop over markdownMetas: st = [items, roots]
AssembleOne(st, v) ==
    IF Len(v.Path) <= 0 THEN st
    ELSE LET pathElements == StringsSplit(v.Path) IN
         IF ~HasPrefix(pathElements[1], RootPrefix) THEN st
         ELSE IF Len(pathElements) = 1 THEN
             IF IsLandingPage(v) THEN st
             ELSE LET root == Len(st.items) + 1
                  IN  [items |-> Append(st.items, NewItem(root, v.Name, 0)),
                       roots |-> Append(st.roots, root)]
         ELSE LET rest == Tail(pathElements)
                  parent == Len(st.items) + 1
                  withParent == Append(st.items, NewItem(parent, rest[1], 0))
                  tree == createNavItemTree(withParent, Tail(rest), parent)
                  bottomMost == Len(tree.items) + 1
                  withLeaf == Append([tree.items EXCEPT ![tree.bottom].Children =
                                         Append(@, bottomMost)],
                                     NewItem(bottomMost, v.Name, 0))
              IN  [items |-> withLeaf,
                   roots |-> Append(st.roots, findRoot(withLeaf, tree.bottom))]

\* the loop "for _, v := range markdownMetas"
RECURSIVE Assemble(_, _)
Assemble(st, metas) ==
    IF Len(metas) = 0 THEN st
    ELSE Assemble(AssembleOne(st, metas[1]), Tail(metas))

----------------------------------------------------------------------------
(* linkChildrenWithTheSameParent *)

\* the Uuids of the items of list whose Href is href, in slice order: uuidsByHref[href]
UuidsByHref(items, list, href) ==
    LET SameHref(u) == items[u].Href = href
    IN  SelectSeq(list, SameHref)

\* variant with a fault: no twin is merged into self
KeepTwins(st, self, uuids) == st

\* the loop over the uuids of self's Href: the children of every twin still in
\* the map are appended to self's and the twin is deleted from the map;
\* st = [items, trees], trees being the keys left in treesByHrefAndUuid
RECURSIVE LinkTwins(_, _, _)
LinkTwins(st, self, uuids) ==
    IF Len(uuids) = 0 THEN st
    ELSE LET uuid == uuids[1] IN
         IF self = uuid \/ uuid \notin st.trees THEN LinkTwins(st, self, Tail(uuids))
         ELSE LinkTwins([items |-> [st.items EXCEPT ![self].Children =
                                       @ \o st.items[uuid].Children],
                         trees |-> st.trees \ {uuid},
                         hrefs |-> st.hrefs],
                        self, Tail(uuids))

\* the loop "for _, self := range navigationItemTrees";
\* hrefs are the keys left in uuidsByHref
RECURSIVE LinkLoop(_, _, _)
LinkLoop(st, list, i) ==
    IF i > Len(list) THEN st
    ELSE LET self == list[i]
             href == st.items[self].Href
         IN  IF href \notin st.hrefs THEN LinkLoop(st, list, i + 1)
             ELSE LET linked == LinkTwins(st, self, UuidsByHref(st.items, list, href))
                  IN  LinkLoop([linked EXCEPT !.hrefs = @ \ {href}], list, i + 1)

\* sort.Slice(navigationItemTrees, ... strings.Compare(Href a, Href b) == -1)
RECURSIVE InsertByHref(_, _, _)
InsertByHref(items, x, s) ==
    IF Len(s) = 0 THEN <<x>>
    ELSE IF StrLess(items[s[1]].Href, items[x].Href)
         THEN <<s[1]>> \o InsertByHref(items, x, Tail(s))
    ELSE <<x>> \o s

RECURSIVE SortByHref(_, _)
SortByHref(items, s) ==
    IF Len(s) = 0 THEN <<>>
    ELSE InsertByHref(items, s[1], SortByHref(items, Tail(s)))

RECURSIVE linkChildrenWithTheSameParent(_, _)
RECURSIVE LinkChildrenOf(_, _, _)

\* the loop that assigns to every item of trees its linked children
LinkChildrenOf(items, trees, i) ==
    IF i > Len(trees) THEN items
    ELSE LET r == linkChildrenWithTheSameParent(items, items[trees[i]].Children)
         IN  LinkChildrenOf([r.items EXCEPT ![trees[i]].Children = r.list], trees, i + 1)

\* returns the arena and the consolidated list
linkChildrenWithTheSameParent(items, navigationItemTrees) ==
    IF Len(navigationItemTrees) = 0
    THEN [items |-> items, list |-> navigationItemTrees]
    ELSE LET st == LinkLoop([items |-> items,
                             trees |-> Range(navigationItemTrees),
                             hrefs |-> {items[u].Href : u \in Range(navigationItemTrees)}],
                            navigationItemTrees, 1)
             sorted == SortByHref(st.items, SomeOrder(st.trees))
         IN  [items |-> LinkChildrenOf(st.items, sorted, 1), list |-> sorted]

----------------------------------------------------------------------------
(* removeDotPrefixedRoots, the collator's sort, removeNumberPrefixFromRoots *)

IsDigit(c) == c \in 48..57

\* regexp "^\\." matches
IsDotPrefixed(s) == Len(s) > 0 /\ s[1] = 46

removeDotPrefixedRoots(items, roots) ==
    LET Visible(u) == ~IsDotPrefixed(items[u].Href)
    IN  SelectSeq(roots, Visible)

\* primary weight of a character in the collator's order: '_' before '-' before
\* the other punctuation, then the digits, then the letters whatever their case
CollationWeight(c) ==
    IF c = 95 THEN 1
    ELSE IF c = 45 THEN 2
    ELSE IF IsDigit(c) THEN 200 + c
    ELSE IF c \in 65..90 THEN 300 + c + 32
    ELSE IF c \in 97..122 THEN 300 + c
    ELSE 3 + c

\* x sorts before y at the primary level
RECURSIVE PrimaryLess(_, _)
PrimaryLess(x, y) ==
    IF Len(y) = 0 THEN FALSE
    ELSE IF Len(x) = 0 THEN TRUE
    ELSE IF CollationWeight(x[1]) < CollationWeight(y[1]) THEN TRUE
    ELSE IF CollationWeight(x[1]) > CollationWeight(y[1]) THEN FALSE
    ELSE PrimaryLess(Tail(x), Tail(y))

\* x and y of equal primary weights: the first difference has x in lower case
RECURSIVE TertiaryLess(_, _)
TertiaryLess(x, y) ==
    IF Len(x) = 0 \/ Len(y) = 0 THEN FALSE
    ELSE IF x[1] = y[1] THEN TertiaryLess(Tail(x), Tail(y))
    ELSE x[1] > y[1]

\* the order of collate.New(language.English)
CollatorLess(x, y) ==
    \/ PrimaryLess(x, y)
    \/ (~PrimaryLess(y, x) /\ TertiaryLess(x, y))

RECURSIVE InsertByCollation(_, _, _)
InsertByCollation(items, x, s) ==
    IF Len(s) = 0 THEN <<x>>
    ELSE IF CollatorLess(items[x].Href, items[s[1]].Href) THEN <<x>> \o s
    ELSE <<s[1]>> \o InsertByCollation(items, x, Tail(s))

\* variant with a fault: the roots are left in the order of the merge pass
KeepOrder(items, s) == s

\* n.Sort(itemTreesLister{itemTrees: rootNavigationItems})
RECURSIVE CollatorSort(_, _)
CollatorSort(items, s) ==
    IF Len(s) = 0 THEN <<>>
    ELSE InsertByCollation(items, s[1], CollatorSort(items, Tail(s)))

\* compiledRegex.FindString for "^\\d+": the leading run of digits
RECURSIVE DigitPrefix(_)
DigitPrefix(s) ==
    IF Len(s) = 0 \/ ~IsDigit(s[1]) THEN <<>>
    ELSE <<s[1]>> \o DigitPrefix(Tail(s))

\* strings.TrimPrefix(s, prefix)
TrimPrefix(s, prefix) ==
    IF HasPrefix(s, prefix) THEN SubSeq(s, Len(prefix) + 1, Len(s)) ELSE s

\* variant with a fault: no prefix is removed
KeepRoot(root) == root

\* the body of the loop of removeNumberPrefixFromRoots for one root
StripRoot(root) ==
    LET hasChildren == Len(root.Children) > 0
        isPrefixedHref == DigitPrefix(root.Href) # <<>>
        isPrefixedLabel == DigitPrefix(root.Label) # <<>>
        prefix == DigitPrefix(root.Href)
    IN  IF hasChildren /\ isPrefixedHref /\ isPrefixedLabel
        THEN [root EXCEPT !.Href = TrimPrefix(@, prefix \o <<95>>),
                          !.Label = TrimPrefix(@, prefix \o <<32>>)]
        ELSE IF ~hasChildren /\ isPrefixedHref /\ isPrefixedLabel
        THEN [root EXCEPT !.Label = TrimPrefix(@, prefix \o <<32>>)]
        ELSE root

\* variant with a fault: every item of the arena is treated as a root
StripEveryItem(items, roots) ==
    [u \in 1..Len(items) |-> StripRoot(items[u])]

\* the loop over the roots
removeNumberPrefixFromRoots(items, roots) ==
    [u \in 1..Len(items) |-> IF u \in Range(roots) THEN StripRoot(items[u]) ELSE items[u]]

----------------------------------------------------------------------------
(* Specification of one call of BuildNavigationItemTrees(markdownMetas) *)

\* the elements joined by "/"
RECURSIVE JoinSlash(_)
JoinSlash(elems) ==
    IF Len(elems) = 0 THEN <<>>
    ELSE IF Len(elems) = 1 THEN elems[1]
    ELSE elems[1] \o <<47>> \o JoinSlash(Tail(elems))

\* "G", "S"
SegG == <<71>>

SegS == <<83>>

\* paths below the root prefix
FolderPaths ==
    {JoinSlash(<<RootPrefix>>), JoinSlash(<<RootPrefix, SegG>>),
     JoinSlash(<<RootPrefix, SegG, SegS>>)}

\* the empty path, "docs/G" and "markdowns2/G"
OtherPaths ==
    {<<>>, JoinSlash(<<<<100, 111, 99, 115>>, SegG>>),
     JoinSlash(<<RootPrefix \o <<50>>, SegG>>)}

MetaRecords ==
    [Name : {SegG, SegS, LandingPage}, Path : FolderPaths]
        \cup [Name : {SegS}, Path : OtherPaths]

TrigramIdle ==
    /\ a = <<>>
    /\ b = <<>>
    /\ unsorted = <<>>
    /\ aTrigrams = <<>>
    /\ bTrigrams = <<>>
    /\ aTrigramsByTrigram = {}
    /\ intersectionCount = 0
    /\ score = NoScore

InitNav ==
    /\ pc = "ready"
    /\ TrigramIdle
    /\ SearchIdle
    /\ BitbucketIdle
    /\ markdownMetas \in UNION {[1..n -> MetaRecords] : n \in 0..MaxRecords}
    /\ linkedItems = <<>>
    /\ linkedRoots = <<>>
    /\ returnedItems = <<>>
    /\ rootNavigationItems = <<>>

\* the stages of BuildNavigationItemTrees on the records metas: the arena and
\* the roots after the merge, the arena and the roots that are returned
BuildForest(metas) ==
    LET assembled == Assemble([items |-> <<>>, roots |-> <<>>], metas)
        linked == linkChildrenWithTheSameParent(assembled.items, assembled.roots)
        visible == removeDotPrefixedRoots(linked.items, linked.list)
        sorted == CollatorSort(linked.items, visible)
    IN  [linkedItems |-> linked.items,
         linkedRoots |-> linked.list,
         items |-> removeNumberPrefixFromRoots(linked.items, sorted),
         roots |-> sorted]

BuildNavigationItemTrees ==
    /\ pc = "ready"
    /\ LET built == BuildForest(markdownMetas)
       IN  /\ linkedItems' = built.linkedItems
           /\ linkedRoots' = built.linkedRoots
           /\ returnedItems' = built.items
           /\ rootNavigationItems' = built.roots
    /\ pc' = "done"
    /\ UNCHANGED <<markdownMetas, trigramVars, searchVars, bitbucketVars>>

NextNav == BuildNavigationItemTrees

SpecNav == InitNav /\ [][NextNav]_vars

----------------------------------------------------------------------------
(* Specification of one call of BuildNavigationItemTrees on records whose   *)
(* names and folders carry a numeric prefix, a leading dot, '_' and '-'     *)

\* "1_G"
SegNumG == <<49, 95, 71>>

\* "A_"
SegAUnderscore == <<65, 95>>

\* "A-"
SegAHyphen == <<65, 45>>

\* ".G"
SegDotG == <<46, 71>>

NamedSegments == {SegNumG, SegAUnderscore, SegAHyphen, SegDotG}

\* "markdowns", "markdowns/1_G"
NamedPaths == {JoinSlash(<<RootPrefix>>), JoinSlash(<<RootPrefix, SegNumG>>)}

\* every name at the top level and in folder "1_G", "A_" in the hidden folder
\* ".G", "1_G" in folder "A_", "A_" in folder "G"
NamedRecords ==
    [Name : NamedSegments, Path : NamedPaths]
        \cup {[Name |-> SegAUnderscore, Path |-> JoinSlash(<<RootPrefix, SegDotG>>)],
              [Name |-> SegNumG, Path |-> JoinSlash(<<RootPrefix, SegAUnderscore>>)],
              [Name |-> SegAUnderscore, Path |-> JoinSlash(<<RootPrefix, SegG>>)]}

InitNames ==
    /\ pc = "ready"
    /\ TrigramIdle
    /\ SearchIdle
    /\ BitbucketIdle
    /\ markdownMetas \in UNION {[1..n -> NamedRecords] : n \in 0..MaxRecords}
    /\ linkedItems = <<>>
    /\ linkedRoots = <<>>
    /\ returnedItems = <<>>
    /\ rootNavigationItems = <<>>

SpecNames == InitNames /\ [][NextNav]_vars

----------------------------------------------------------------------------
(* Specification of one call of removeNumberPrefixFromRoots on roots whose *)
(* href and label carry a numeric prefix independently of each other      *)

\* most roots handed to removeNumberPrefixFromRoots
MaxRoots == 2

\* "1 G"
LabelNumG == <<49, 32, 71>>

\* a root of href "1_G" or "G" and of label "1 G" or "G", with or without a child
RootShapes == [Href : {SegNumG, SegG}, Label : {LabelNumG, SegG}, HasChildren : BOOLEAN]

\* the arena of the roots of shapes: root i is item i, its child "S", if it
\* has one, is item Len(shapes) + i
RootArena(shapes) ==
    LET n == Len(shapes)
    IN  [u \in 1..(2 * n) |->
            IF u <= n
            THEN [Uuid |-> u, Href |-> shapes[u].Href, Label |-> shapes[u].Label,
                  Parent |-> 0,
                  Children |-> IF shapes[u].HasChildren THEN <<n + u>> ELSE <<>>]
            ELSE NewItem(u, SegS, u - n)]

InitRoots ==
    /\ pc = "roots"
    /\ TrigramIdle
    /\ SearchIdle
    /\ BitbucketIdle
    /\ markdownMetas = <<>>
    /\ \E shapes \in UNION {[1..n -> RootShapes] : n \in 0..MaxRoots} :
          /\ linkedItems = RootArena(shapes)
          /\ linkedRoots = [i \in 1..Len(shapes) |-> i]
    /\ returnedItems = <<>>
    /\ rootNavigationItems = <<>>

\* n.removeNumberPrefixFromRoots(rootNavigationItems)
CallRemoveNumberPrefixFromRoots ==
    /\ pc = "roots"
    /\ returnedItems' = removeNumberPrefixFromRoots(linkedItems, linkedRoots)
    /\ rootNavigationItems' = linkedRoots
    /\ pc' = "stripped"
    /\ UNCHANGED <<markdownMetas, linkedItems, linkedRoots, trigramVars, searchVars, bitbucketVars>>

NextRoots == CallRemoveNumberPrefixFromRoots

SpecRoots == InitRoots /\ [][NextRoots]_vars

----------------------------------------------------------------------------
(* utils.CalculateTotalPages.  A count is an int of 64 bits and is        *)
(* written as its binary digits, most significant first (0 has none); a   *)
(* float64 is [mant, exp] of value mant * 2^exp, mant having at most       *)
(* MantissaBits significant digits                                        *)

\* significant binary digits of a float64
MantissaBits == 53

\* the binary digits of the natural number n
RECURSIVE BitsOf(_)
BitsOf(n) == IF n = 0 THEN <<>> ELSE Append(BitsOf(n \div 2), n % 2)

\* the natural number of the digits bits
RECURSIVE ValueOf(_)
ValueOf(bits) ==
    IF Len(bits) = 0 THEN 0
    ELSE 2 * ValueOf(SubSeq(bits, 1, Len(bits) - 1)) + bits[Len(bits)]

Zeros(n) == [i \in 1..n |-> 0]

\* bits + 1: the last 0 becomes 1 and the 1s behind it become 0
Increment(bits) ==
    IF \A i \in 1..Len(bits) : bits[i] = 1 THEN <<1>> \o Zeros(Len(bits))
    ELSE LET k == CHOOSE i \in 1..Len(bits) :
                      bits[i] = 0 /\ \A j \in (i + 1)..Len(bits) : bits[j] = 1
         IN  [i \in 1..Len(bits) |-> IF i < k THEN bits[i] ELSE IF i = k THEN 1 ELSE 0]

\* bits without its leading zeros
Canonical(bits) ==
    IF \A i \in 1..Len(bits) : bits[i] = 0 THEN <<>>
    ELSE LET first == CHOOSE i \in 1..Len(bits) :
                          bits[i] = 1 /\ \A j \in 1..(i - 1) : bits[j] = 0
         IN  SubSeq(bits, first, Len(bits))

\* 2^k + n, for n < 2^k
PowerOfTwoPlus(k, n) == <<1>> \o Zeros(k - Len(BitsOf(n))) \o BitsOf(n)

\* the float64 nearest to the number whose leading digits are bits (round to
\* nearest, ties to even); inexact: the number has non-zero digits after bits
RoundToEven(bits, inexact) ==
    IF Len(bits) <= MantissaBits THEN [mant |-> bits, exp |-> 0]
    ELSE LET kept == SubSeq(bits, 1, MantissaBits)
             rest == SubSeq(bits, MantissaBits + 1, Len(bits))
             half == rest[1] = 1
             more == inexact \/ \E i \in 2..Len(rest) : rest[i] = 1
             up == half /\ (more \/ kept[MantissaBits] = 1)
         IN  [mant |-> IF up THEN Increment(kept) ELSE kept, exp |-> Len(rest)]

\* float64(n) for an int n >= 0
Float64FromInt(bits) == RoundToEven(bits, FALSE)

\* binary digits of an int
IntBits == 64

\* zeros written after the dividend's digits, behind the binary point:
\* enough for a quotient of more than MantissaBits digits
Padding == MantissaBits + IntBits

\* n < 256 written with eight digits
Octet(n) == [i \in 1..8 |-> (n \div 2 ^ (8 - i)) % 2]

\* long division by d, eight digits a step, of a number with a multiple of
\* eight digits: the digits of the quotient and the remainder
RECURSIVE DivideOctets(_, _)
DivideOctets(digits, d) ==
    IF Len(digits) = 0 THEN [q |-> <<>>, rem |-> 0]
    ELSE LET n == Len(digits)
             before == DivideOctets(SubSeq(digits, 1, n - 8), d)
             r == 256 * before.rem + ValueOf(SubSeq(digits, n - 7, n))
         IN  [q |-> before.q \o Octet(r \div d), rem |-> r % d]

\* quotient and remainder of the number bits divided by d, 0 < d < 2^22
LongDivision(bits, d) ==
    LET r == DivideOctets(Zeros((8 - (Len(bits) % 8)) % 8) \o bits, d)
    IN  [q |-> Canonical(r.q), rem |-> r.rem]

\* x / y in float64, for y > 0 with a mantissa below 2^22: the quotient of
\* the mantissas to Padding digits behind the binary point, then rounded
Float64Quo(x, y) ==
    LET r == LongDivision(x.mant \o Zeros(Padding), ValueOf(y.mant))
        rounded == RoundToEven(r.q, r.rem # 0)
    IN  [mant |-> rounded.mant, exp |-> rounded.exp + x.exp - y.exp - Padding]

\* math.Ceil(x) for x >= 0
Float64Ceil(x) ==
    IF x.exp >= 0 THEN x
    ELSE LET n == Len(x.mant) + x.exp
             whole == IF n > 0 THEN SubSeq(x.mant, 1, n) ELSE <<>>
             hasFraction == \E i \in 1..Len(x.mant) : i > n /\ x.mant[i] = 1
         IN  [mant |-> IF hasFraction THEN Increment(whole) ELSE whole, exp |-> 0]

\* int(x) for an integral x >= 0 below 2^63
IntFromFloat64(x) ==
    IF Len(x.mant) = 0 THEN <<>> ELSE x.mant \o Zeros(x.exp)

\* func CalculateTotalPages(matchCount, pageSize int) int
CalculateTotalPages(matchCount, pageSize) ==
    IF pageSize <= 0 THEN <<>>
    ELSE LET exactPageSize == Float64Quo(Float64FromInt(matchCount),
                                         Float64FromInt(BitsOf(pageSize)))
         IN  IntFromFloat64(Float64Ceil(exactPageSize))

----------------------------------------------------------------------------
(* GetMarkdownSearchTermMatches and mapToMarkdownSearchPage *)

\* pageSize := 5
DefaultPageSize == 5

\* if payload.Pageable.PageSize > 0 { pageSize = payload.Pageable.PageSize }
EffectivePageSize(requested) ==
    IF requested > 0 THEN requested ELSE DefaultPageSize

\* the float64 TrigramSorensenDiceSimilarity(x, y) returns
SimilarityOf(x, y) ==
    LET aT == TransformToUniqueTrigrams(x)
        bT == TransformToUniqueTrigrams(y)
    IN  Float64Div(2 * CountCommon(bT, Range(aT)), Len(aT) + Len(bT))

\* x > y on float64: false when one of them is NaN
Float64Greater(x, y) ==
    IF x.kind = "NaN" \/ y.kind = "NaN" THEN FALSE
    ELSE IF x.kind = "Inf" THEN y.kind # "Inf"
    ELSE IF y.kind = "Inf" THEN FALSE
    ELSE x.num * y.den > y.num * x.den

\* variant with a fault: the loop has no "if i >= pageSize { break }"
ScoreEveryCandidate(searchMatches, searchTerm, pageSize) ==
    [i \in 1..Len(searchMatches) |->
        [content |-> searchMatches[i],
         similarity |-> SimilarityOf(searchMatches[i].Content, searchTerm)]]

\* the loop "for i, v := range searchMatches" that fills matchesWithSimilarity
ScoreCandidates(searchMatches, searchTerm, pageSize) ==
    [i \in 1..(IF Len(searchMatches) < pageSize THEN Len(searchMatches) ELSE pageSize) |->
        [content |-> searchMatches[i],
         similarity |-> SimilarityOf(searchMatches[i].Content, searchTerm)]]

\* the comparator given to slices.SortFunc
SimilarityCmp(x, y) ==
    IF Float64Greater(x.similarity, y.similarity) THEN -1 ELSE 1

\* for j := i; j > a && cmp(data[j], data[j-1]) < 0; j-- { swap }
RECURSIVE SinkTo(_, _)
SinkTo(data, j) ==
    IF j > 1 /\ SimilarityCmp(data[j], data[j - 1]) < 0
    THEN SinkTo([data EXCEPT ![j] = data[j - 1], ![j - 1] = data[j]], j - 1)
    ELSE data

\* for i := a + 1; i < b; i++ { ... }
RECURSIVE InsertionSort(_, _)
InsertionSort(data, i) ==
    IF i > Len(data) THEN data
    ELSE InsertionSort(SinkTo(data, i), i + 1)

\* variant with a fault: the candidates stay in arrival order
ArrivalOrder(data) == data

\* slices.SortFunc on a slice of at most 12 elements: insertion sort
SortFunc(data) == InsertionSort(data, 2)

\* the MarkdownSearchMatch of one MarkdownContent
MatchOf(v, searchTerm) ==
    LET path == JoinSlash(Tail(StringsSplit(v.Path)))
        prefix == DigitPrefix(v.Name)
        label == IF Len(path) = 0 /\ prefix # <<>>
                 THEN TrimPrefix(v.Name, prefix \o <<95>>)
                 ELSE v.Name
    IN  [Label |-> UnderscoresToSpaces(label),
         Href |-> v.Name,
         Path |-> path,
         PrettyPath |-> UnderscoresToSpaces(path),
         MatchingText |-> searchTerm]

\* the path with the numeric prefix and separator removed from its first element
StripPathRoot(path, hrefSeparator) ==
    LET pathElements == StringsSplit(path)
        root == pathElements[1]
        prefix == DigitPrefix(root)
    IN  IF prefix = <<>> THEN path
        ELSE JoinSlash(<<TrimPrefix(root, prefix \o <<hrefSeparator>>)>>
                           \o Tail(pathElements))

removeNumberPrefixFromPathRoots(markdownSearchMatches) ==
    [i \in 1..Len(markdownSearchMatches) |->
        [markdownSearchMatches[i] EXCEPT !.Path = StripPathRoot(@, 95)]]

removeNumberPrefixFromPrettyPathRoots(markdownSearchMatches) ==
    [i \in 1..Len(markdownSearchMatches) |->
        [markdownSearchMatches[i] EXCEPT !.PrettyPath = StripPathRoot(@, 32)]]

\* searchMatches is never nil here: the handler passes a slice it made
mapToMarkdownSearchPage(payload, pageSize, matchCount, searchMatches) ==
    LET matches == [i \in 1..Len(searchMatches) |-> MatchOf(searchMatches[i], payload.Term)]
    IN  [Content |-> removeNumberPrefixFromPrettyPathRoots(
                         removeNumberPrefixFromPathRoots(matches)),
         Pageable |-> [PageSize |-> payload.PageSize],
         TotalElements |-> matchCount,
         TotalPages |-> CalculateTotalPages(matchCount, pageSize)]

----------------------------------------------------------------------------
(* Specification of one request to GetMarkdownSearchTermMatches, or of one *)
(* call of utils.CalculateTotalPages                                       *)

\* most rows the repository yields
MaxCandidates == 6

\* largest page size of a request or a call
MaxPageSize == 2

\* largest small count, and largest n of the counts 2^MantissaBits + n
MaxMatchCount == 6

MaxLargeOffset == 1

\* the top-level document "1_G" of content "ab", the document "S" of folder
\* "1_G" of content "a"
SearchRows ==
    {[Name |-> SegNumG, Path |-> RootPrefix, Content |-> <<97, 98>>],
     [Name |-> SegS, Path |-> JoinSlash(<<RootPrefix, SegNumG>>), Content |-> <<97>>]}

\* "", " ", "a", "ab"
SearchTerms == {<<>>, <<32>>, <<97>>, <<97, 98>>}

\* content LIKE '%' || term || '%'
Contains(content, searchTerm) ==
    \E i \in 0..(Len(content) - Len(searchTerm)) :
        SubSeq(content, i + 1, i + Len(searchTerm)) = searchTerm

\* the rows the repository can yield for the term
RowsFor(searchTerm) ==
    LET matching == {r \in SearchRows : Contains(r.Content, searchTerm)}
    IN  UNION {[1..n -> matching] : n \in 0..MaxCandidates}

PageSizes == (-1)..MaxPageSize

MatchCounts ==
    {BitsOf(n) : n \in 0..MaxMatchCount}
        \cup {PowerOfTwoPlus(MantissaBits, n) : n \in 0..MaxLargeOffset}

InitSearch ==
    /\ TrigramIdle
    /\ NavIdle
    /\ BitbucketIdle
    /\ matchesWithSimilarity = <<>>
    /\ status = 0
    /\ page = NoPage
    /\ totalPages = <<>>
    /\ \/ /\ pc = "request"
          /\ request \in [Term : SearchTerms, PageSize : PageSizes]
          /\ repository \in [rows : RowsFor(request.Term), count : MatchCounts]
          /\ Len(request.Term) = 0 => repository = [rows |-> <<>>, count |-> <<>>]
          /\ callArgs = [matchCount |-> <<>>, pageSize |-> 0]
       \/ /\ pc = "call"
          /\ request = [Term |-> <<>>, PageSize |-> 0]
          /\ repository = [rows |-> <<>>, count |-> <<>>]
          /\ callArgs \in [matchCount : MatchCounts, pageSize : PageSizes]

\* if len(payload.Term) <= 0 { ... AbortWithStatusJSON(http.StatusBadRequest ...
RejectMissingTerm ==
    /\ pc = "request"
    /\ Len(request.Term) <= 0
    /\ status' = 400
    /\ pc' = "done"
    /\ UNCHANGED <<request, repository, matchesWithSimilarity, page, callArgs, totalPages>>
    /\ UNCHANGED <<trigramVars, navVars, bitbucketVars>>

\* FindMarkdownsBySearchTermSimple returns an error
FindFails ==
    /\ pc = "request"
    /\ Len(request.Term) > 0
    /\ status' = 500
    /\ pc' = "done"
    /\ UNCHANGED <<request, repository, matchesWithSimilarity, page, callArgs, totalPages>>
    /\ UNCHANGED <<trigramVars, navVars, bitbucketVars>>

\* CountMarkdownsMatchesBySearchTermSimple returns an error
CountFails ==
    /\ pc = "request"
    /\ Len(request.Term) > 0
    /\ LET pageSize == EffectivePageSize(request.PageSize)
       IN  matchesWithSimilarity' =
               SortFunc(ScoreCandidates(repository.rows, request.Term, pageSize))
    /\ status' = 500
    /\ pc' = "done"
    /\ UNCHANGED <<request, repository, page, callArgs, totalPages>>
    /\ UNCHANGED <<trigramVars, navVars, bitbucketVars>>

\* both queries succeed: c.JSON(http.StatusOK, page)
RespondWithPage ==
    /\ pc = "request"
    /\ Len(request.Term) > 0
    /\ LET pageSize == EffectivePageSize(request.PageSize)
           sorted == SortFunc(ScoreCandidates(repository.rows, request.Term, pageSize))
           firstPage == [i \in 1..Len(sorted) |-> sorted[i].content]
       IN  /\ matchesWithSimilarity' = sorted
           /\ page' = mapToMarkdownSearchPage(request, pageSize, repository.count, firstPage)
    /\ status' = 200
    /\ pc' = "done"
    /\ UNCHANGED <<request, repository, callArgs, totalPages>>
    /\ UNCHANGED <<trigramVars, navVars, bitbucketVars>>

GetMarkdownSearchTermMatches ==
    RejectMissingTerm \/ FindFails \/ CountFails \/ RespondWithPage

CallCalculateTotalPages ==
    /\ pc = "call"
    /\ totalPages' = CalculateTotalPages(callArgs.matchCount, callArgs.pageSize)
    /\ pc' = "done"
    /\ UNCHANGED <<request, repository, matchesWithSimilarity, status, page, callArgs>>
    /\ UNCHANGED <<trigramVars, navVars, bitbucketVars>>

NextSearch == GetMarkdownSearchTermMatches \/ CallCalculateTotalPages

SpecSearch == InitSearch /\ [][NextSearch]_vars

----------------------------------------------------------------------------
(* Specification of one call of mapToMarkdownSearchPage on rows of folders *)
(* with and without numeric prefixes                                       *)

\* most rows handed to mapToMarkdownSearchPage
MaxMapped == 2

\* "1G", "1 G", "1_2_G"
SegNumNoSeparator == <<49, 71>>

SegNumSpace == <<49, 32, 71>>

SegNumNum == <<49, 95, 50, 95, 71>>

\* "markdowns", "markdowns/1_G", "markdowns/G/1_G", "markdowns/1G",
\* "markdowns/1 G", "markdowns/1_2_G"
MappedPaths ==
    {JoinSlash(<<RootPrefix>>), JoinSlash(<<RootPrefix, SegNumG>>),
     JoinSlash(<<RootPrefix, SegG, SegNumG>>),
     JoinSlash(<<RootPrefix, SegNumNoSeparator>>),
     JoinSlash(<<RootPrefix, SegNumSpace>>),
     JoinSlash(<<RootPrefix, SegNumNum>>)}

\* the documents "S" and "1_G", of content "a", in each of the folders
MappedRows == [Name : {SegS, SegNumG}, Path : MappedPaths, Content : {<<97>>}]

InitMap ==
    /\ pc = "map"
    /\ TrigramIdle
    /\ NavIdle
    /\ BitbucketIdle
    /\ request = [Term |-> <<97>>, PageSize |-> 0]
    /\ repository \in [rows : UNION {[1..n -> MappedRows] : n \in 0..MaxMapped},
                        count : {BitsOf(MaxMapped)}]
    /\ matchesWithSimilarity = <<>>
    /\ status = 0
    /\ page = NoPage
    /\ callArgs = [matchCount |-> repository.count, pageSize |-> DefaultPageSize]
    /\ totalPages = <<>>

\* page, err := hc.mapToMarkdownSearchPage(payload, pageSize, matchCount, firstPage)
CallMapToMarkdownSearchPage ==
    /\ pc = "map"
    /\ page' = mapToMarkdownSearchPage(request, callArgs.pageSize,
                                       callArgs.matchCount, repository.rows)
    /\ pc' = "mapped"
    /\ UNCHANGED <<request, repository, matchesWithSimilarity, status, callArgs, totalPages>>
    /\ UNCHANGED <<trigramVars, navVars, bitbucketVars>>

NextMap == CallMapToMarkdownSearchPage

SpecMap == InitMap /\ [][NextMap]_vars

----------------------------------------------------------------------------
(* DefaultMarkdownHousekeeper.DeleteObsoleteMarkdownsFromDatabase.  A meta  *)
(* is [ID, Name], a content is [ID, MetaID]; every repository call is one  *)
(* step, which succeeds or returns an error and then changes nothing       *)

\* most metas of the database, most source metas
MaxDbMetas == 2

MaxSourceMetas == 2

\* the keys of utils.SliceToMap(markdownMetasFromBitbucket, ... meta.Name)
NamesOfMetas(fromBitbucket) == {fromBitbucket[i].Name : i \in 1..Len(fromBitbucket)}

\* variant with a fault: every meta of the database is taken for obsolete
EveryMetaId(fromBitbucket, fromDb) == [i \in 1..Len(fromDb) |-> fromDb[i].ID]

\* the loop over markdownMetasFromDb: the IDs of the metas whose Name is no
\* key of markdownMetasFromBitbucketByName, in the order of the slice
ObsoleteMetaIds(fromBitbucket, fromDb) ==
    LET IsObsolete(v) == v.Name \notin NamesOfMetas(fromBitbucket)
        obsolete == SelectSeq(fromDb, IsObsolete)
    IN  [i \in 1..Len(obsolete) |-> obsolete[i].ID]

\* SELECT id FROM markdown_contents WHERE meta_id IN ?
ContentIdsByMetaIds(contents, markdownMetaIds) ==
    SomeOrder({c.ID : c \in {x \in contents : x.MetaID \in Range(markdownMetaIds)}})

\* DELETE FROM markdown_contents WHERE id IN ?
ContentsWithoutIds(contents, contentIds) ==
    {c \in contents : c.ID \notin Range(contentIds)}

\* DELETE FROM markdown_meta WHERE id IN ?
MetasWithoutIds(metas, metaIds) == metas \ Range(metaIds)

\* the metas of the database have the IDs 1, 2, ... and the names "G" or "S"
DbMetas ==
    UNION {{[i \in 1..n |-> [ID |-> i, Name |-> names[i]]] : names \in [1..n -> {SegG, SegS}]}
           : n \in 0..MaxDbMetas}

SourceMetas ==
    UNION {[1..n -> [Name : {SegG, SegS}]] : n \in 0..MaxSourceMetas}

\* the content that refers to meta id, of n metas: the IDs of the contents
\* are those of the metas in the opposite order
ContentOf(id, n) == [ID |-> n + 1 - id, MetaID |-> id]

InitHousekeeper ==
    /\ pc = "housekeeper"
    /\ TrigramIdle
    /\ NavIdle
    /\ SearchIdle
    /\ ReaderIdle
    /\ markdownMetasFromBitbucket \in SourceMetas
    /\ markdownMetasFromDb \in DbMetas
    /\ toBeDeletedMarkdownMetaIds = <<>>
    /\ toBeDeletedMarkdownContentIds = <<>>
    /\ \E referenced \in SUBSET (1..Len(markdownMetasFromDb)) :
          database = [metas |-> 1..Len(markdownMetasFromDb),
                      contents |-> {ContentOf(id, Len(markdownMetasFromDb)) : id \in referenced}]
    /\ calls = <<>>
    /\ err = "none"

HousekeeperUnchanged ==
    UNCHANGED <<markdownMetasFromBitbucket, markdownMetasFromDb, readerVars,
                trigramVars, navVars, searchVars>>

\* if len(toBeDeletedMarkdownMetaIds) == 0 { ... return nil }
ReturnEarly ==
    /\ pc = "housekeeper"
    /\ toBeDeletedMarkdownMetaIds' =
           ObsoleteMetaIds(markdownMetasFromBitbucket, markdownMetasFromDb)
    /\ Len(toBeDeletedMarkdownMetaIds') = 0
    /\ err' = "nil"
    /\ pc' = "returned"
    /\ UNCHANGED <<toBeDeletedMarkdownContentIds, database, calls>>
    /\ HousekeeperUnchanged

\* err := hk.FindMarkdownContentIdsByMetaIds(ctx, toBeDeletedMarkdownMetaIds, ...)
FindMarkdownContentIdsByMetaIds ==
    /\ pc = "housekeeper"
    /\ toBeDeletedMarkdownMetaIds' =
           ObsoleteMetaIds(markdownMetasFromBitbucket, markdownMetasFromDb)
    /\ Len(toBeDeletedMarkdownMetaIds') > 0
    /\ \E ok \in BOOLEAN :
          /\ calls' = Append(calls, [name |-> "FindMarkdownContentIdsByMetaIds", ok |-> ok])
          /\ IF ok
             THEN /\ toBeDeletedMarkdownContentIds' =
                        ContentIdsByMetaIds(database.contents, toBeDeletedMarkdownMetaIds')
                  /\ pc' = IF Len(toBeDeletedMarkdownContentIds') > 0
                           THEN "deleteContents" ELSE "deleteMetas"
                  /\ UNCHANGED err
             ELSE /\ err' = "error"
                  /\ pc' = "returned"
                  /\ UNCHANGED toBeDeletedMarkdownContentIds
    /\ UNCHANGED database
    /\ HousekeeperUnchanged

\* err = hk.deleteObsoleteTuples(ctx, toBeDeletedMarkdownContentIds, MarkdownContent)
DeleteMarkdownContentsByIds ==
    /\ pc = "deleteContents"
    /\ \E ok \in BOOLEAN :
          /\ calls' = Append(calls, [name |-> "DeleteMarkdownContentsByIds", ok |-> ok])
          /\ IF ok
             THEN /\ database' = [database EXCEPT !.contents =
                                      ContentsWithoutIds(@, toBeDeletedMarkdownContentIds)]
                  /\ pc' = "deleteMetas"
                  /\ UNCHANGED err
             ELSE /\ err' = "error"
                  /\ pc' = "returned"
                  /\ UNCHANGED database
    /\ UNCHANGED <<toBeDeletedMarkdownMetaIds, toBeDeletedMarkdownContentIds>>
    /\ HousekeeperUnchanged

\* err = hk.deleteObsoleteTuples(ctx, toBeDeletedMarkdownMetaIds, MarkdownMeta)
DeleteMarkdownMetasByIds ==
    /\ pc = "deleteMetas"
    /\ \E ok \in BOOLEAN :
          /\ calls' = Append(calls, [name |-> "DeleteMarkdownMetasByIds", ok |-> ok])
          /\ IF ok
             THEN /\ database' = [database EXCEPT !.metas =
                                      MetasWithoutIds(@, toBeDeletedMarkdownMetaIds)]
                  /\ err' = "nil"
             ELSE /\ err' = "error"
                  /\ UNCHANGED database
    /\ pc' = "returned"
    /\ UNCHANGED <<toBeDeletedMarkdownMetaIds, toBeDeletedMarkdownContentIds>>
    /\ HousekeeperUnchanged

DeleteObsoleteMarkdownsFromDatabase ==
    \/ ReturnEarly
    \/ FindMarkdownContentIdsByMetaIds
    \/ DeleteMarkdownContentsByIds
    \/ DeleteMarkdownMetasByIds

NextHousekeeper == DeleteObsoleteMarkdownsFromDatabase

SpecHousekeeper == InitHousekeeper /\ [][NextHousekeeper]_vars

----------------------------------------------------------------------------
(* O11yBitbucketReader.ReadMarkdownFileStructureRecursively: the goroutine  *)
(* of read() fetches the pages and sends one Result per page on the         *)
(* unbuffered channel outStream, consume() ranges over the channel.  A send *)
(* on an unbuffered channel completes together with the receive.            *)

\* most pages the repository serves, most entries of a page
MaxFetches == 2

MaxEntries == 1

\* the entries of "values": the strings "markdowns/G" and "G", and a value
\* that is no string
PageEntries ==
    {[type |-> "string", value |-> JoinSlash(<<RootPrefix, SegG>>)],
     [type |-> "string", value |-> SegG],
     [type |-> "float64", value |-> <<>>]}

\* what obbr.Adapter.StreamFiles can return: an error, no response, a
\* response without "values", with values nil, with values that are no
\* slice, or a page
Responses ==
    [kind : {"error", "nil", "noValues", "nilValues", "notASlice"}]
        \cup [kind : {"page"},
              values : UNION {[1..n -> PageEntries] : n \in 0..MaxEntries},
              isLastPage : {"missing", "true", "false"},
              nextPageStart : {"missing", "present"}]

\* the Result the goroutine sends for the response
ResultOf(response) ==
    IF response.kind = "page" THEN [AnyFilePaths |-> response.values, Error |-> "nil"]
    ELSE IF response.kind = "nilValues" THEN [AnyFilePaths |-> <<>>, Error |-> "nil"]
    ELSE [AnyFilePaths |-> <<>>, Error |-> "error"]

\* after the send the loop "for !reachedLastPage" runs again
ContinuesAfter(response) ==
    /\ response.kind = "page"
    /\ response.isLastPage = "false"
    /\ response.nextPageStart = "present"

\* strings.HasPrefix(fp, "markdowns/")
IsMarkdownPath(fp) == HasPrefix(fp, RootPrefix \o <<47>>)

\* the body of "for result := range results" for one Result
Consume(state, result) ==
    IF result.Error # "nil"
    THEN [pc |-> "returned", filePaths |-> <<>>, Error |-> "error"]
    ELSE IF \E i \in 1..Len(result.AnyFilePaths) : result.AnyFilePaths[i].type # "string"
    THEN [pc |-> "returned", filePaths |-> <<>>, Error |-> "error"]
    ELSE LET IsKept(v) == IsMarkdownPath(v.value)
             kept == SelectSeq(result.AnyFilePaths, IsKept)
         IN  [state EXCEPT !.filePaths = @ \o [i \in 1..Len(kept) |-> kept[i].value]]

InitReader ==
    /\ pc \in {"uninitialized", "initialized"}
    /\ TrigramIdle
    /\ NavIdle
    /\ SearchIdle
    /\ HousekeeperIdle
    /\ ReaderIdle

ReaderUnchanged == UNCHANGED <<housekeeperVars, trigramVars, navVars, searchVars>>

\* if obbr.Adapter == nil { return nil, fmt.Errorf("bitbucket API not initialized") }
RejectMissingAdapter ==
    /\ pc = "uninitialized"
    /\ consumer' = [pc |-> "returned", filePaths |-> <<>>, Error |-> "error"]
    /\ pc' = "read"
    /\ UNCHANGED <<producer, outStream>>
    /\ ReaderUnchanged

\* results := read(): the channel is made and the goroutine started;
\* consume(results) begins to range over the channel
StartReading ==
    /\ pc = "initialized"
    /\ outStream' = "open"
    /\ producer' = [producer EXCEPT !.pc = "fetch"]
    /\ consumer' = [consumer EXCEPT !.pc = "receive"]
    /\ pc' = "read"
    /\ ReaderUnchanged

\* the goroutine calls obbr.Adapter.StreamFiles and prepares the Result; the
\* repository serves at most MaxFetches pages
StreamFiles ==
    /\ producer.pc = "fetch"
    /\ \E response \in Responses :
          /\ ContinuesAfter(response) => producer.fetches + 1 < MaxFetches
          /\ producer' = [pc |-> "send", response |-> response,
                          result |-> ResultOf(response),
                          fetches |-> producer.fetches + 1]
    /\ UNCHANGED <<pc, consumer, outStream>>
    /\ ReaderUnchanged

\* outStream <- Result{...} meets "for result := range results": the Result
\* is handed over and consume() runs the body of its loop
SendAndReceive ==
    /\ producer.pc = "send"
    /\ consumer.pc = "receive"
    /\ consumer' = Consume(consumer, producer.result)
    /\ producer' = [producer EXCEPT !.pc = "sent"]
    /\ UNCHANGED <<pc, outStream>>
    /\ ReaderUnchanged

\* the goroutine after its send: the next turn of the loop, or the end of
\* the function with the deferred close(outStream)
ContinueOrClose ==
    /\ producer.pc = "sent"
    /\ IF ContinuesAfter(producer.response)
       THEN /\ producer' = [producer EXCEPT !.pc = "fetch"]
            /\ UNCHANGED outStream
       ELSE /\ producer' = [producer EXCEPT !.pc = "closed"]
            /\ outStream' = "closed"
    /\ UNCHANGED <<pc, consumer>>
    /\ ReaderUnchanged

\* the range over the closed channel ends: return filePaths, nil
ReceiveClosed ==
    /\ consumer.pc = "receive"
    /\ outStream = "closed"
    /\ consumer' = [consumer EXCEPT !.pc = "returned"]
    /\ UNCHANGED <<pc, producer, outStream>>
    /\ ReaderUnchanged

ReadMarkdownFileStructureRecursively ==
    \/ RejectMissingAdapter
    \/ StartReading
    \/ StreamFiles
    \/ SendAndReceive
    \/ ContinueOrClose
    \/ ReceiveClosed

NextReader == ReadMarkdownFileStructureRecursively

SpecReader == InitReader /\ [][NextReader]_vars

\* a goroutine that can run does run, and StreamFiles returns
SpecReaderFair ==
    /\ SpecReader
    /\ WF_vars(StartReading)
    /\ WF_vars(StreamFiles)
    /\ WF_vars(SendAndReceive)
    /\ WF_vars(ContinueOrClose)
    /\ WF_vars(ReceiveClosed)

----------------------------------------------------------------------------
(* Vocabulary of the claims about the scorer *)

Done == pc = "done"

IsZero(x) == x.kind = "num" /\ x.num = 0

IsOne(x) == x.kind = "num" /\ x.num = x.den

CharsOf(s) == {s[i] : i \in 1..Len(s)}

\* the letter c in lower case, letters being 'A'..'Z' and 'a'..'z'
Folded(c) == IF c >= 65 /\ c <= 90 THEN c + 32 ELSE c

SameUpToCase(x, y) ==
    /\ Len(x) = Len(y)
    /\ \A i \in 1..Len(x) : Folded(x[i]) = Folded(y[i])

UpperCased(x) == [i \in 1..Len(x) |-> IF x[i] >= 97 /\ x[i] <= 122 THEN x[i] - 32 ELSE x[i]]

\* C1: when a and b are not both empty, the score is 2*|A \cap B| over |A| + |B|,
\* A and B being the sets of trigrams TransformToUniqueTrigrams returns for a and b
C1_DiceFormula ==
    (Done /\ ~(a = <<>> /\ b = <<>>)) =>
        LET A == Range(TransformToUniqueTrigrams(a))
            B == Range(TransformToUniqueTrigrams(b))
        IN  /\ score.kind = "num"
            /\ score.num = 2 * Cardinality(A \cap B)
            /\ score.den = Cardinality(A) + Cardinality(B)

C1_Witness ==
    /\ Done
    /\ a # <<>> /\ b # <<>> /\ a # b
    /\ score.num > 0 /\ score.num < score.den

\* C2: the score is 0.0 whenever at least one argument is the empty string,
\* the pair of two empty strings included (a number, never NaN)
C2_EmptyIsZero ==
    (Done /\ (a = <<>> \/ b = <<>>)) => IsZero(score)

C4_InUnitInterval ==
    Done =>
        /\ score.kind = "num"
        /\ 0 <= score.num /\ score.num <= score.den
        /\ intersectionCount <= Len(aTrigrams)
        /\ intersectionCount <= Len(bTrigrams)

\* C5: two non-empty texts with no character in common after lower-casing
\* (word characters and separators alike) score 0.0
C5_DisjointIsZero ==
    (/\ Done
     /\ a # <<>> /\ b # <<>>
     /\ {Folded(c) : c \in CharsOf(a)} \cap {Folded(c) : c \in CharsOf(b)} = {})
        => IsZero(score)

\* C6: two texts made of the same words, separated by single separators, in
\* any order have the same trigram sequence and score 1.0
C6_WordOrder ==
    Done => (aTrigrams = bTrigrams /\ IsOne(score))

C6_Witness ==
    /\ Done
    /\ Len(a) = 3 /\ Len(b) = 3
    /\ a[1] # b[1] /\ Folded(a[1]) # Folded(b[1])
    /\ a[1] = b[3] /\ a[3] = b[1]
    /\ IsOne(score)

\* the words of a text: the maximal runs of word characters between the runs of
\* non-word characters, and an empty word before a leading and after a trailing
\* separator
WordsOf(text) ==
    {SubSeq(text, i, j) : <<i, j>> \in
        {ij \in (1..(Len(text) + 1)) \X (0..Len(text)) :
            /\ ij[2] >= ij[1] - 1
            /\ \A k \in ij[1]..ij[2] : IsWordChar(text[k])
            /\ (ij[1] = 1 \/ ~IsWordChar(text[ij[1] - 1]))
            /\ (ij[2] = Len(text) \/ ~IsWordChar(text[ij[2] + 1]))
            /\ (ij[2] = ij[1] - 1 => (ij[1] = 1 \/ ij[2] = Len(text)))}}

\* character n of two spaces, the lower-cased word w and one space
PaddedAt(w, n) ==
    IF n >= 3 /\ n <= Len(w) + 2 THEN Folded(w[n - 2]) ELSE 32

\* the windows of 3 characters at offsets 0..len(w) of every padded word
WindowsOf(text) ==
    UNION {{[m \in 1..3 |-> PaddedAt(w, k + m)] : k \in 0..Len(w)} : w \in WordsOf(text)}

\* C7: TransformToUniqueTrigrams returns exactly the windows of the padded,
\* lower-cased words of the text, the empty sequence for the empty text, and
\* the same result when the text's words are repeated
C7_TrigramSet ==
    Done =>
        IF a = <<>> THEN aTrigrams = <<>>
        ELSE /\ Range(aTrigrams) = WindowsOf(a)
             /\ TransformToUniqueTrigrams(a \o <<32>> \o a) = aTrigrams

C7_Witness ==
    /\ Done
    /\ Len(a) = 3 /\ ~IsWordChar(a[2]) /\ IsWordChar(a[1]) /\ a[3] = a[1]
    /\ Len(aTrigrams) = 2
    /\ Range(aTrigrams) = WindowsOf(<<a[1]>>)

\* t sorts before u in byte order, t and u being trigrams
TrigramBefore(t, u) ==
    \E k \in 1..3 : t[k] < u[k] /\ \A m \in 1..(k - 1) : t[m] = u[m]

\* C8: the returned sequence is strictly ascending in byte order (sorted and
\* without duplicates), whatever the iteration order of the intermediate set
C8_StrictlyAscending ==
    Done =>
        /\ \A i \in 1..(Len(aTrigrams) - 1) : TrigramBefore(aTrigrams[i], aTrigrams[i + 1])
        /\ aTrigrams = TransformToUniqueTrigrams(a)

C8_Witness ==
    /\ Done
    /\ Len(aTrigrams) >= 3
    /\ unsorted # aTrigrams
    /\ \A i \in 1..(Len(aTrigrams) - 1) : TrigramBefore(aTrigrams[i], aTrigrams[i + 1])

----------------------------------------------------------------------------
(* Vocabulary of the claims about the navigation tree *)

\* the items of the forest whose roots are list
RECURSIVE Below(_, _)
Below(arena, list) ==
    Range(list) \cup UNION {Below(arena, arena[u].Children) : u \in Range(list)}

\* the sibling groups of the forest: its roots and every item's children
SiblingGroups(arena, roots) ==
    {roots} \cup {arena[u].Children : u \in Below(arena, roots)}

HrefsOf(arena, group) == [i \in 1..Len(group) |-> arena[group[i]].Href]

PairwiseDistinct(s) == \A i, j \in 1..Len(s) : s[i] = s[j] => i = j

\* the number of roots whose Href is href
RootsWithHref(arena, roots, href) ==
    Cardinality({i \in 1..Len(roots) : arena[roots[i]].Href = href})

\* the path elements of a record's path
ElementsOf(path) == StringsSplit(path)

\* C9: after the merge pass the hrefs of every sibling group, at every depth,
\* are pairwise distinct; the records of one folder directly below the root
\* prefix yield exactly one root of that href, and so does a top-level document
\* together with the folder of its name
C9_UniqueSiblingHrefs ==
    Done =>
        /\ \A g \in SiblingGroups(linkedItems, linkedRoots) :
              PairwiseDistinct(HrefsOf(linkedItems, g))
        /\ \A i \in 1..Len(markdownMetas) :
              LET v == markdownMetas[i] IN
              /\ (v.Path # <<>> /\ Len(ElementsOf(v.Path)) = 2
                    /\ ElementsOf(v.Path)[1] = RootPrefix)
                    => RootsWithHref(linkedItems, linkedRoots, ElementsOf(v.Path)[2]) = 1
              /\ (v.Path = RootPrefix /\ v.Name # LandingPage)
                    => RootsWithHref(linkedItems, linkedRoots, v.Name) = 1

C9_Witness ==
    /\ Done
    /\ \E i, j, k \in 1..Len(markdownMetas) :
          /\ markdownMetas[i] = [Name |-> SegG, Path |-> RootPrefix]
          /\ markdownMetas[j] = [Name |-> SegG, Path |-> JoinSlash(<<RootPrefix, SegG>>)]
          /\ markdownMetas[k] = [Name |-> SegS, Path |-> JoinSlash(<<RootPrefix, SegG>>)]
    /\ Len(linkedRoots) = 1
    /\ HrefsOf(linkedItems, linkedItems[linkedRoots[1]].Children) = <<SegG, SegS>>

\* the hrefs from a root down to an item, for every item of the forest
RECURSIVE NodePaths(_, _, _)
NodePaths(arena, list, above) ==
    UNION {{Append(above, arena[u].Href)}
             \cup NodePaths(arena, arena[u].Children, Append(above, arena[u].Href))
           : u \in Range(list)}

NonEmptyPrefixes(s) == {SubSeq(s, 1, n) : n \in 1..Len(s)}

\* a record with path markdowns/s1/.../sk, k >= 0, the landing page excepted
IsValidRecord(v) ==
    /\ v.Path # <<>>
    /\ ElementsOf(v.Path)[1] = RootPrefix
    /\ ~(v.Path = RootPrefix /\ v.Name = LandingPage)

\* a record the loop of BuildNavigationItemTrees does not skip
IsAcceptedRecord(v) ==
    /\ v.Path # <<>>
    /\ HasPrefix(ElementsOf(v.Path)[1], RootPrefix)
    /\ ~(Len(ElementsOf(v.Path)) = 1 /\ v.Name = LandingPage)

\* the nodes of the prefix tree of the records that satisfy Keep
PrefixTree(metas, Keep(_)) ==
    UNION {NonEmptyPrefixes(Append(Tail(ElementsOf(metas[i].Path)), metas[i].Name))
           : i \in {k \in 1..Len(metas) : Keep(metas[k])}}

\* C10: after assembly and merge the forest is the prefix tree of the valid
\* records: the chain s1..sk and the leaf d of every valid record, a root d
\* for a record whose path is the root prefix, every node once, and no node
\* that stems from no valid record
C10_PrefixTree ==
    Done =>
        /\ NodePaths(linkedItems, linkedRoots, <<>>) = PrefixTree(markdownMetas, IsValidRecord)
        /\ Cardinality(Below(linkedItems, linkedRoots))
              = Cardinality(PrefixTree(markdownMetas, IsValidRecord))

\* the forest is the prefix tree of the records the loop does not skip
PrefixTreeOfAcceptedRecords ==
    Done =>
        /\ NodePaths(linkedItems, linkedRoots, <<>>) = PrefixTree(markdownMetas, IsAcceptedRecord)
        /\ Cardinality(Below(linkedItems, linkedRoots))
              = Cardinality(PrefixTree(markdownMetas, IsAcceptedRecord))

----------------------------------------------------------------------------
(* Vocabulary of the claims about the returned forest *)

\* the tree below item u: its href, its label and the trees of its children
RECURSIVE TreeOf(_, _)
TreeOf(arena, u) ==
    [Href |-> arena[u].Href, Label |-> arena[u].Label,
     Children |-> [i \in 1..Len(arena[u].Children)
                     |-> TreeOf(arena, arena[u].Children[i])]]

ForestOf(arena, roots) == [i \in 1..Len(roots) |-> TreeOf(arena, roots[i])]

\* the path is not empty and its first segment equals the root prefix
HasRootSegment(v) ==
    /\ v.Path # <<>>
    /\ ElementsOf(v.Path)[1] = RootPrefix

\* the path is not empty and its first segment starts with the root prefix
StartsWithRootPrefix(v) ==
    /\ v.Path # <<>>
    /\ HasPrefix(ElementsOf(v.Path)[1], RootPrefix)

\* the forest returned for the records of metas that satisfy Keep
ForestOfRecords(metas, Keep(_)) ==
    LET rest == BuildForest(SelectSeq(metas, Keep))
    IN  ForestOf(rest.items, rest.roots)

\* C11: a record whose path is empty or whose first path segment is not equal
\* to the root prefix contributes no node: the returned forest is the forest
\* built from the remaining records alone
C11_InvalidRecordsSkipped ==
    Done => ForestOf(returnedItems, rootNavigationItems)
                = ForestOfRecords(markdownMetas, HasRootSegment)

\* the returned forest is the forest built from the records whose first path
\* segment starts with the root prefix
ForestOfPrefixedRecords ==
    Done => ForestOf(returnedItems, rootNavigationItems)
                = ForestOfRecords(markdownMetas, StartsWithRootPrefix)

\* C12: no node of the returned forest, at any depth, has the landing page's
\* name as its href, whatever the path of the record of that name
C12_NoLandingPage ==
    Done => \A u \in Below(returnedItems, rootNavigationItems) :
                returnedItems[u].Href # LandingPage

\* no root of the returned forest has the landing page's name as its href
NoLandingPageRoot ==
    Done => \A u \in Range(rootNavigationItems) : returnedItems[u].Href # LandingPage

IsHidden(href) == Len(href) > 0 /\ href[1] = 46

\* C13: no node of the returned forest, root or nested, has an href that
\* starts with '.'
C13_NoHiddenNode ==
    Done => \A u \in Below(returnedItems, rootNavigationItems) :
                ~IsHidden(returnedItems[u].Href)

\* no root of the returned forest has an href that starts with '.'
NoHiddenRoot ==
    Done => \A u \in Range(rootNavigationItems) : ~IsHidden(returnedItems[u].Href)

\* every href sorts before its successor in the collator's order
InCollationOrder(hrefs) ==
    \A i \in 1..(Len(hrefs) - 1) : CollatorLess(hrefs[i], hrefs[i + 1])

\* C14: every sibling list of the returned forest, the roots and the children
\* of every node, is in the collator's order of the hrefs (the hrefs as they
\* are before the numeric prefixes are stripped)
C14_SiblingsCollated ==
    Done => \A g \in SiblingGroups(returnedItems, rootNavigationItems) :
                InCollationOrder(HrefsOf(linkedItems, g))

\* C15: the roots are returned in the collator's order of their hrefs as they
\* are before the numeric prefixes are stripped, and they are exactly the
\* roots of the merge pass that are not hidden: stripping the prefixes
\* neither reorders, adds nor removes a root
C15_OrderBeforeNormalisation ==
    Done =>
        /\ InCollationOrder(HrefsOf(linkedItems, rootNavigationItems))
        /\ Range(rootNavigationItems)
              = {u \in Range(linkedRoots) : ~IsHidden(linkedItems[u].Href)}
        /\ PairwiseDistinct(rootNavigationItems)

\* "1_G" and "A_" are returned as "G" ahead of "A_", and "A_" ahead of "A-"
C15_Witness ==
    /\ Done
    /\ HrefsOf(linkedItems, rootNavigationItems) = <<SegNumG, SegAUnderscore, SegAHyphen>>
    /\ HrefsOf(returnedItems, rootNavigationItems) = <<SegG, SegAUnderscore, SegAHyphen>>

\* s starts with n digits followed by the separator sep
HasNumberPrefix(s, n, sep) ==
    /\ n >= 1
    /\ Len(s) > n
    /\ \A i \in 1..n : s[i] \in 48..57
    /\ s[n + 1] = sep

StartsWithDigit(s) == Len(s) > 0 /\ s[1] \in 48..57

AfterPrefix(s, n) == SubSeq(s, n + 2, Len(s))

\* C16: a root with a child whose href is digits, '_', rest and whose label
\* is the same digits, ' ', rest' is returned with href rest and label
\* rest'; a root whose href and label start with no digit is unchanged
C16_FolderRootStripped ==
    Done =>
        \A u \in Range(rootNavigationItems) :
            LET before == linkedItems[u]
                after == returnedItems[u]
            IN  /\ \A n \in 1..Len(before.Href) :
                      (/\ Len(before.Children) > 0
                       /\ HasNumberPrefix(before.Href, n, 95)
                       /\ HasNumberPrefix(before.Label, n, 32)
                       /\ SubSeq(before.Label, 1, n) = SubSeq(before.Href, 1, n))
                      => /\ after.Href = AfterPrefix(before.Href, n)
                         /\ after.Label = AfterPrefix(before.Label, n)
                /\ (~StartsWithDigit(before.Href) /\ ~StartsWithDigit(before.Label))
                      => after = before

\* folder "1_G" is returned as "G" next to the unchanged root "A_"
C16_Witness ==
    /\ Done
    /\ \E u, w \in Range(rootNavigationItems) :
          /\ Len(linkedItems[u].Children) > 0
          /\ linkedItems[u].Href = SegNumG
          /\ returnedItems[u].Href = SegG
          /\ returnedItems[u].Label = SegG
          /\ linkedItems[w].Href = SegAUnderscore
          /\ returnedItems[w] = linkedItems[w]

\* C17: a root without children whose href and label carry a numeric prefix
\* keeps its href, prefix included, and loses the prefix of its label; no
\* item below the roots has its href or its label changed
C17_LeafRootKeepsHref ==
    Done =>
        /\ \A u \in Range(rootNavigationItems) :
              LET before == linkedItems[u]
                  after == returnedItems[u]
              IN  \A n \in 1..Len(before.Href) :
                      (/\ Len(before.Children) = 0
                       /\ HasNumberPrefix(before.Href, n, 95)
                       /\ HasNumberPrefix(before.Label, n, 32))
                      => /\ after.Href = before.Href
                         /\ after.Label = AfterPrefix(before.Label, n)
        /\ \A u \in Below(returnedItems, rootNavigationItems) \ Range(rootNavigationItems) :
              /\ returnedItems[u].Href = linkedItems[u].Href
              /\ returnedItems[u].Label = linkedItems[u].Label

\* the top-level document "1_G" keeps its href and is labelled "G", and the
\* document "1_G" of folder "A_" keeps href and label
C17_Witness ==
    /\ Done
    /\ \E u, w \in Range(rootNavigationItems) :
          /\ Len(returnedItems[u].Children) = 0
          /\ returnedItems[u].Href = SegNumG
          /\ returnedItems[u].Label = SegG
          /\ returnedItems[w].Href = SegAUnderscore
          /\ \E c \in Range(returnedItems[w].Children) :
                /\ returnedItems[c].Href = SegNumG
                /\ returnedItems[c].Label = <<49, 32, 71>>

----------------------------------------------------------------------------
(* Vocabulary of the claims about the search page *)

Responded == pc = "done" /\ status = 200

\* the number of positions of s that hold x
CountIn(s, x) == Cardinality({i \in 1..Len(s) : s[i] = x})

\* s and t hold the same elements the same number of times
IsPermutation(s, t) ==
    /\ Len(s) = Len(t)
    /\ \A x \in Range(s) \cup Range(t) : CountIn(s, x) = CountIn(t, x)

Minimum(x, y) == IF x < y THEN x ELSE y

\* the page size in force: the requested one if positive, else 5
PageSizeInForce == IF request.PageSize > 0 THEN request.PageSize ELSE 5

\* the first candidates in arrival order, as many as the page size in force
RetainedCandidates ==
    SubSeq(repository.rows, 1, Minimum(PageSizeInForce, Len(repository.rows)))

NamesOf(rows) == [i \in 1..Len(rows) |-> rows[i].Name]

\* C18: the content of the page is a permutation of the first min(p, n) of
\* the n candidates in arrival order, p being the requested page size if it
\* is positive and 5 otherwise; no candidate behind position p is scored
C18_TruncateBeforeRank ==
    Responded =>
        /\ IsPermutation(HrefsOf(page.Content, [i \in 1..Len(page.Content) |-> i]),
                         NamesOf(RetainedCandidates))
        /\ IsPermutation([i \in 1..Len(matchesWithSimilarity)
                             |-> matchesWithSimilarity[i].content],
                         RetainedCandidates)

\* six candidates and the default page size: five are returned, and the
\* sixth, left out, is more similar to the term than a returned one
C18_Witness ==
    /\ Responded
    /\ request.PageSize <= 0
    /\ Len(repository.rows) = 6
    /\ Len(page.Content) = 5
    /\ \E i \in 1..5 :
          Float64Greater(SimilarityOf(repository.rows[6].Content, request.Term),
                         SimilarityOf(repository.rows[i].Content, request.Term))

\* x >= y on two float64 that are numbers
AtLeast(x, y) ==
    /\ x.kind = "num"
    /\ y.kind = "num"
    /\ x.num * y.den >= y.num * x.den

\* the similarity of the i-th scored candidate to the term
ScoreAt(i) == SimilarityOf(matchesWithSimilarity[i].content.Content, request.Term)

\* C19: the matches of the page are the scored candidates in descending
\* order of similarity to the term: of two adjacent matches the earlier has
\* a score greater than or equal to the later, ties included
C19_DescendingSimilarity ==
    Responded =>
        /\ Len(page.Content) = Len(matchesWithSimilarity)
        /\ \A i \in 1..Len(page.Content) :
              page.Content[i].Href = matchesWithSimilarity[i].content.Name
        /\ \A i \in 1..(Len(matchesWithSimilarity) - 1) : AtLeast(ScoreAt(i), ScoreAt(i + 1))

\* three retained candidates that arrive with the best in the middle are
\* returned best first, followed by the two of equal score
C19_Witness ==
    /\ Responded
    /\ Len(repository.rows) = 3
    /\ Len(page.Content) = 3
    /\ Float64Greater(SimilarityOf(repository.rows[2].Content, request.Term),
                      SimilarityOf(repository.rows[1].Content, request.Term))
    /\ repository.rows[3] = repository.rows[1]
    /\ page.Content[1].Href = repository.rows[2].Name
    /\ page.Content[2].Href = repository.rows[1].Name
    /\ ScoreAt(2) = ScoreAt(3)

\* the ceiling of count / size, exactly
CeilingOfQuotient(count, size) ==
    LET r == LongDivision(count, size)
    IN  IF r.rem > 0 THEN Increment(r.q) ELSE r.q

Returned == pc = "done" /\ status = 0

\* C20: totalElements is the count the repository supplies and totalPages
\* is the ceiling of totalElements / p for the page size p in force;
\* CalculateTotalPages(matchCount, pageSize) is the ceiling of
\* matchCount / pageSize for pageSize > 0 and 0 for pageSize <= 0
C20_PageMath ==
    /\ Responded =>
          /\ page.TotalElements = repository.count
          /\ page.TotalPages = CeilingOfQuotient(page.TotalElements, PageSizeInForce)
    /\ Returned =>
          totalPages = IF callArgs.pageSize > 0
                       THEN CeilingOfQuotient(callArgs.matchCount, callArgs.pageSize)
                       ELSE <<>>

\* the page math holds for every count below 2^MantissaBits
PageMathOfExactCounts ==
    /\ (Responded /\ Len(repository.count) <= MantissaBits) =>
          /\ page.TotalElements = repository.count
          /\ page.TotalPages = CeilingOfQuotient(page.TotalElements, PageSizeInForce)
    /\ (Returned /\ Len(callArgs.matchCount) <= MantissaBits) =>
          totalPages = IF callArgs.pageSize > 0
                       THEN CeilingOfQuotient(callArgs.matchCount, callArgs.pageSize)
                       ELSE <<>>

----------------------------------------------------------------------------
(* Claims about the search request, continued *)

\* a blank string: empty, or made of white space only
IsBlank(s) == \A i \in 1..Len(s) : s[i] \in {9, 10, 13, 32}

\* C21: a request whose term is blank ends with status 400 (bad request),
\* without candidates having been looked up or scored and without a page
C21_BlankTermRejected ==
    (pc = "done" /\ status # 0 /\ IsBlank(request.Term)) =>
        /\ status = 400
        /\ matchesWithSimilarity = <<>>
        /\ page = NoPage

\* the empty term is rejected before any collaborator is called
EmptyTermRejected ==
    (pc = "done" /\ status # 0 /\ request.Term = <<>>) =>
        /\ status = 400
        /\ matchesWithSimilarity = <<>>
        /\ page = NoPage

\* the page mapToMarkdownSearchPage returned for the rows of the repository
Mapped == pc = "mapped"

\* s without its leading digits and the separator that follows them; s
\* itself when it does not start with digits and the separator
WithoutNumberPrefix(s, sep) ==
    IF \E n \in 1..Len(s) : HasNumberPrefix(s, n, sep)
    THEN AfterPrefix(s, CHOOSE n \in 1..Len(s) : HasNumberPrefix(s, n, sep))
    ELSE s

\* the path of a record without its first segment and without the numeric
\* prefix of the first segment that remains
PathBelowRoot(path, sep) ==
    LET rest == Tail(StringsSplit(path))
    IN  IF rest = <<>> THEN <<>>
        ELSE JoinSlash(<<WithoutNumberPrefix(rest[1], sep)>> \o Tail(rest))

\* C22: for every match of the page, path is the path of the record without
\* its first segment and without the numeric prefix of the first remaining
\* segment, and neither path nor prettyPath starts with a decimal digit
C22_PathStripped ==
    Mapped =>
        \A i \in 1..Len(page.Content) :
            /\ page.Content[i].Path = PathBelowRoot(repository.rows[i].Path, 95)
            /\ ~StartsWithDigit(page.Content[i].Path)
            /\ ~StartsWithDigit(page.Content[i].PrettyPath)

\* path loses the root prefix and the digits of a first segment that
\* continues with '_'; other leading digits stay
PathStrippedOfSeparatedPrefix ==
    Mapped =>
        /\ Len(page.Content) = Len(repository.rows)
        /\ \A i \in 1..Len(page.Content) :
              page.Content[i].Path = PathBelowRoot(repository.rows[i].Path, 95)

SpacesToUnderscores(s) == [i \in 1..Len(s) |-> IF s[i] = 32 THEN 95 ELSE s[i]]

\* C23: for every match of the page, prettyPath is path with every '_'
\* replaced by a space, and prettyPath with every space replaced by '_' is
\* path
C23_PrettyPathOfPath ==
    Mapped =>
        \A i \in 1..Len(page.Content) :
            /\ page.Content[i].PrettyPath = UnderscoresToSpaces(page.Content[i].Path)
            /\ SpacesToUnderscores(page.Content[i].PrettyPath) = page.Content[i].Path

\* the relation of prettyPath and path holds for the records whose path
\* holds no space
PrettyPathOfSpacelessPath ==
    Mapped =>
        \A i \in 1..Len(page.Content) :
            (32 \notin Range(repository.rows[i].Path)) =>
                /\ page.Content[i].PrettyPath = UnderscoresToSpaces(page.Content[i].Path)
                /\ SpacesToUnderscores(page.Content[i].PrettyPath) = page.Content[i].Path

----------------------------------------------------------------------------
(* Claims about the returned forest, continued *)

\* the sequences that hold the records of metas in another order
PermutationsOf(metas) ==
    {[i \in 1..Len(metas) |-> metas[f[i]]] : f \in IterationOrders(1..Len(metas))}

\* C24: the forest returned for the records in any other order is, node
\* identifiers aside, the returned forest (hrefs, labels, children and
\* sibling order), and no sibling list of the merge pass depends on the order
\* in which the map of the surviving trees is iterated
C24_OrderIndependent ==
    Done =>
        /\ \A metas \in PermutationsOf(markdownMetas) :
              LET other == BuildForest(metas)
              IN  ForestOf(other.items, other.roots)
                      = ForestOf(returnedItems, rootNavigationItems)
        /\ \A g \in SiblingGroups(linkedItems, linkedRoots) :
              \A order \in IterationOrders(Range(g)) :
                  SortByHref(linkedItems, order) = g

\* three different records, two of one folder, whose trees are merged into
\* one root that is returned beside another root
C24_Witness ==
    /\ Done
    /\ Len(markdownMetas) = 3
    /\ Cardinality(Range(markdownMetas)) = 3
    /\ Len(rootNavigationItems) = 2
    /\ \E u \in Range(rootNavigationItems) : Len(returnedItems[u].Children) = 2
    /\ \E metas \in PermutationsOf(markdownMetas) :
          BuildForest(metas).roots # rootNavigationItems

\* C25: no two roots of the returned forest have the same href
C25_UniqueRootHrefs ==
    Done => PairwiseDistinct(HrefsOf(returnedItems, rootNavigationItems))

\* before the numeric prefixes are stripped the hrefs of the roots differ
UniqueRootHrefsBeforeStripping ==
    Done => PairwiseDistinct(HrefsOf(linkedItems, rootNavigationItems))

\* C26: every root of the returned forest has no parent, and every child of
\* every node of the forest has that node as its parent
C26_ParentOwnsChild ==
    Done =>
        /\ \A u \in Range(rootNavigationItems) : returnedItems[u].Parent = 0
        /\ \A u \in Below(returnedItems, rootNavigationItems) :
              \A c \in Range(returnedItems[u].Children) : returnedItems[c].Parent = u

\* every root of the returned forest has no parent
RootsHaveNoParent ==
    Done => \A u \in Range(rootNavigationItems) : returnedItems[u].Parent = 0

\* the parent of a node with children of its own is a node of its href:
\* the owner, or the twin the owner absorbed
FolderParentIsOwnerOrTwin ==
    Done =>
        \A u \in Below(returnedItems, rootNavigationItems) :
            \A c \in Range(returnedItems[u].Children) :
                LET parent == linkedItems[c].Parent
                IN  \/ parent = 0
                    \/ linkedItems[parent].Href = linkedItems[u].Href

\* removeNumberPrefixFromRoots has returned
Stripped == pc = "stripped"

\* exactly one of the href and the label of the root starts with digits
IsMismatched(root) == StartsWithDigit(root.Href) # StartsWithDigit(root.Label)

MismatchedRootUnchanged ==
    Stripped =>
        \A u \in Range(rootNavigationItems) :
            LET before == linkedItems[u]
                after == returnedItems[u]
            IN  /\ IsMismatched(before) => after = before
                /\ (StartsWithDigit(before.Href) /\ StartsWithDigit(before.Label)) =>
                      after.Label = WithoutNumberPrefix(before.Label, 32)

\* no root that BuildNavigationItemTrees hands to removeNumberPrefixFromRoots
\* is mismatched: the label is the href with '_' replaced by ' '
NoMismatchedRoot ==
    Done => \A u \in Range(rootNavigationItems) : ~IsMismatched(linkedItems[u])

----------------------------------------------------------------------------
(* Claims about the scorer, continued *)

\* C28: the lookup table holds the trigrams of the operand with fewer unique
\* trigrams: its number of keys is the smaller of |A| and |B|, for either
\* argument order
C28_TableOfSmallerOperand ==
    Done => Cardinality(aTrigramsByTrigram)
                = (IF Len(aTrigrams) <= Len(bTrigrams) THEN Len(aTrigrams) ELSE Len(bTrigrams))

\* the lookup table holds the trigrams of the first operand
TableOfFirstOperand ==
    Done =>
        /\ aTrigramsByTrigram = Range(aTrigrams)
        /\ Cardinality(aTrigramsByTrigram) = Len(aTrigrams)

----------------------------------------------------------------------------
(* Claims about the housekeeper *)

\* the IDs of the database metas whose name no source meta has
ObsoleteIds ==
    {markdownMetasFromDb[i].ID : i \in {j \in 1..Len(markdownMetasFromDb) :
        \A k \in 1..Len(markdownMetasFromBitbucket) :
            markdownMetasFromBitbucket[k].Name # markdownMetasFromDb[j].Name}}

\* the IDs of the metas that are no longer in the table
DeletedMetaIds ==
    {markdownMetasFromDb[i].ID : i \in 1..Len(markdownMetasFromDb)} \ database.metas

Called(name, ok) == \E i \in 1..Len(calls) : calls[i] = [name |-> name, ok |-> ok]

HousekeeperReturned == pc = "returned"

\* in every state: the metas deleted are none or the obsolete ones, after a
\* successful lookup and with no content left that refers to them; a nil
\* return means the obsolete metas are deleted; a failed lookup or content
\* deletion means an error and no meta deleted; nothing obsolete means no call
DeletionState ==
    /\ DeletedMetaIds \in {{}, ObsoleteIds}
    /\ DeletedMetaIds # {} =>
          /\ Called("FindMarkdownContentIdsByMetaIds", TRUE)
          /\ Len(toBeDeletedMarkdownContentIds) > 0 =>
                Called("DeleteMarkdownContentsByIds", TRUE)
          /\ \A c \in database.contents : c.MetaID \notin DeletedMetaIds
    /\ (HousekeeperReturned /\ err = "nil") => DeletedMetaIds = ObsoleteIds
    /\ (HousekeeperReturned
          /\ (\/ Called("FindMarkdownContentIdsByMetaIds", FALSE)
              \/ Called("DeleteMarkdownContentsByIds", FALSE))) =>
          /\ err = "error"
          /\ DeletedMetaIds = {}
    /\ (HousekeeperReturned /\ ObsoleteIds = {}) =>
          /\ err = "nil"
          /\ calls = <<>>

\* in every step: a step that removes metas removes no content, and comes
\* when no content refers to the obsolete metas; when no meta is obsolete
\* no step changes a table
DeletionStep ==
    /\ database'.metas # database.metas =>
          /\ database'.contents = database.contents
          /\ \A c \in database.contents : c.MetaID \notin ObsoleteIds
    /\ ObsoleteIds = {} => database' = database

\* C29: exactly the database metas whose name no source meta has are
\* deleted, and only after the contents that refer to them were looked up
\* and, if any, deleted; a failed lookup or content deletion returns an
\* error and deletes no meta; when no meta is obsolete there is no lookup
\* and no deletion
C29_ObsoleteMetasDeletedLast == []DeletionState /\ [][DeletionStep]_vars

\* two metas of the database, one of them obsolete and with a content, are
\* cleaned up: the content and the obsolete meta are gone, the other stays
C29_Witness ==
    /\ HousekeeperReturned
    /\ err = "nil"
    /\ Len(markdownMetasFromDb) = 2
    /\ Cardinality(ObsoleteIds) = 1
    /\ Len(calls) = 3
    /\ DeletedMetaIds = ObsoleteIds
    /\ Cardinality(database.metas) = 1

----------------------------------------------------------------------------
(* Claims about the reader of the file structure *)

\* ReadMarkdownFileStructureRecursively has returned
ReaderReturned == consumer.pc = "returned"

\* the goroutine of read() has ended, or was never started
ProducerTerminated == producer.pc \in {"closed", "unstarted"}

\* C30: whenever ReadMarkdownFileStructureRecursively returns, with paths or
\* with an error, the goroutine that fetches the pages terminates: it is
\* never left waiting to send on outStream after consume() stopped reading
C30_ProducerTerminates == ReaderReturned ~> ProducerTerminated

\* the goroutine waits to send and nobody will receive
ProducerStranded == ReaderReturned /\ producer.pc = "send"

\* the goroutine is stranded only after consume() returned on an entry that
\* is no string, in a page after which the goroutine fetched the next one
StrandedOnlyAfterNonString ==
    ProducerStranded =>
        /\ consumer.Error = "error"
        /\ producer.fetches >= 2

\* when consume() returns the paths, the channel is closed and the
\* goroutine has ended
PathsMeanClosed ==
    (ReaderReturned /\ consumer.Error = "nil") =>
        /\ outStream = "closed"
        /\ producer.pc = "closed"

====
